---- MODULE Spec2Model ----
(***************************************************************************)
(* Model of electoral_college.py: the 5% eligibility filter, the           *)
(* Huntington-Hill allocation of electors to states and the Sainte-Lague   *)
(* allocation of a state's electors to candidates.                         *)
(*                                                                         *)
(* A Python dict is modelled as a record [keys, val]: keys is the          *)
(* sequence of its keys in insertion order, val the mapping.               *)
(* A float priority is modelled by the exact quotient it rounds: a record  *)
(* [num, den, root] standing for num/den, or num/sqrt(den) when root.      *)
(* Comparisons are made by cross-multiplication on these exact values.     *)
(***************************************************************************)
EXTENDS Integers, Sequences, FiniteSets, TLC

\* ---- bounds of the model ------------------------------------------------
MaxStates == 2
MaxVote == 2
MaxTotalElectors == 3
MaxAwsElectors == 5
MaxFloor == 1
MaxAwsVote == 3

\* ---- data shapes ----------------------------------------------------------
\* state names, sorted ascending as line 81 leaves them
StateNames == <<"A", "B", "C">>

\* key order of one state's tally (lines 74-79)
CandOrder == <<"Dem", "Rep", "Other", "Total">>

EmptyDict == [keys |-> <<>>, val |-> <<>>]

SeqRange(s) == {s[i] : i \in 1..Len(s)}

RECURSIVE SumFrom(_, _)
SumFrom(d, i) ==
    IF i > Len(d.keys) THEN 0 ELSE d.val[d.keys[i]] + SumFrom(d, i + 1)

\* sum(d.values())
DictSum(d) == SumFrom(d, 1)

\* data[state] = {'Dem':..., 'Rep':..., 'Other':..., 'Total': dem+rep+other}
StateData(dem, rep, other) ==
    [keys |-> CandOrder,
     val  |-> [c \in SeqRange(CandOrder) |->
                 CASE c = "Dem"   -> dem
                   [] c = "Rep"   -> rep
                   [] c = "Other" -> other
                   [] OTHER       -> dem + rep + other]]

\* the dict build_turnout_from_pandas returns for a list of per-state rows
Turnout(rows) ==
    [keys |-> SubSeq(StateNames, 1, Len(rows)),
     val  |-> [s \in {StateNames[i] : i \in 1..Len(rows)} |->
                 LET i == CHOOSE j \in 1..Len(rows) : StateNames[j] = s
                 IN  StateData(rows[i][1], rows[i][2], rows[i][3])]]

\* rows of at most MaxVote votes in all
Rows ==
    {r \in (0..MaxVote) \X (0..MaxVote) \X (0..MaxVote) : r[1] + r[2] + r[3] <= MaxVote}

RowSeqs == UNION {[1..n -> Rows] : n \in 0..MaxStates}

\* rows with unequal positive counts, combined in pairs of states
MixedRows == {<<7, 2, 0>>, <<3, 0, 0>>, <<2, 3, 1>>, <<0, 0, 0>>, <<0, 5, 5>>, <<1, 1, 9>>}

\* inputs beyond the small product: shares at, just under and just over 5%,
\* and the tallies of the documented scenarios
ScenarioRows ==
    { <<(<<96, 4, 0>>)>>, <<(<<95, 5, 0>>)>>, <<(<<19, 1, 0>>)>>,
      <<(<<20, 1, 0>>)>>, <<(<<18, 1, 1>>)>>, <<(<<38, 1, 1>>)>>, <<(<<37, 2, 1>>)>>,
      <<(<<600, 400, 0>>)>>,
      << <<1000000, 0, 0>>, <<10000, 0, 0>> >>,
      << <<19, 0, 0>>, <<0, 1, 0>> >> }
    \cup {<<r1, r2>> : r1 \in MixedRows, r2 \in MixedRows}

\* ---- float priorities -----------------------------------------------------
RECURSIVE GCD(_, _)
GCD(a, b) == IF b = 0 THEN a ELSE GCD(b, a % b)

\* p > q on floats
FloatGT(p, q) ==
    IF p.root
    THEN LET g  == GCD(p.num, q.num)
             pn == IF g = 0 THEN 0 ELSE p.num \div g
             qn == IF g = 0 THEN 0 ELSE q.num \div g
         IN  pn * pn * q.den > qn * qn * p.den
    ELSE p.num * q.den > q.num * p.den

\* variant: keeps the last of several equal maxima
RECURSIVE MaxFromLast(_, _, _)
MaxFromLast(d, i, best) ==
    IF i > Len(d.keys) THEN best
    ELSE MaxFromLast(d, i + 1,
                     IF FloatGT(d.val[best], d.val[d.keys[i]]) THEN best ELSE d.keys[i])

\* variant: min in place of max
RECURSIVE MaxFromMin(_, _, _)
MaxFromMin(d, i, best) ==
    IF i > Len(d.keys) THEN best
    ELSE MaxFromMin(d, i + 1,
                    IF FloatGT(d.val[best], d.val[d.keys[i]]) THEN d.keys[i] ELSE best)

\* max(d, key=d.get): the first key whose value no earlier key equals or beats
RECURSIVE MaxFrom(_, _, _)
MaxFrom(d, i, best) ==
    IF i > Len(d.keys) THEN best
    ELSE MaxFrom(d, i + 1,
                 IF FloatGT(d.val[d.keys[i]], d.val[best]) THEN d.keys[i] ELSE best)

PyMax(d) == MaxFrom(d, 2, d.keys[1])

\* variant: one iteration short
PyRangeShort(n) == IF n < 1 THEN 0 ELSE n - 1

\* range(n) runs max(n, 0) times
PyRange(n) == IF n < 0 THEN 0 ELSE n

\* ---- state ----------------------------------------------------------------
VARIABLES voting_turnout, total_electors, floor,
          national_raw_totals, eligible_candidates,
          electors, remaining_electors, hh_left,
          state_idx, final_allocation, national_totals,
          vote_dict, aws_electors, eligible, allocation, aws_left, aws_ret,
          out, pc, err

vars == <<voting_turnout, total_electors, floor,
          national_raw_totals, eligible_candidates,
          electors, remaining_electors, hh_left,
          state_idx, final_allocation, national_totals,
          vote_dict, aws_electors, eligible, allocation, aws_left, aws_ret,
          out, pc, err>>

pipeVars == <<national_raw_totals, eligible_candidates, electors,
              remaining_electors, hh_left,
              state_idx, final_allocation, national_totals, out>>

awsVars == <<vote_dict, aws_electors, eligible, allocation, aws_left, aws_ret>>

inputVars == <<voting_turnout, total_electors, floor>>

Init ==
    /\ \E rows \in RowSeqs \cup ScenarioRows : voting_turnout = Turnout(rows)
    /\ total_electors \in 0..MaxTotalElectors
    /\ floor \in 0..MaxFloor
    /\ national_raw_totals = EmptyDict
    /\ eligible_candidates = {}
    /\ electors = EmptyDict
    /\ remaining_electors = 0
    /\ hh_left = 0
    /\ state_idx = 0
    /\ final_allocation = EmptyDict
    /\ national_totals = EmptyDict
    /\ vote_dict = EmptyDict
    /\ aws_electors = 0
    /\ eligible = {}
    /\ allocation = EmptyDict
    /\ aws_left = 0
    /\ aws_ret = EmptyDict
    /\ out = <<>>
    /\ pc = "start"
    /\ err = "none"

\* ---- eligibility filter (lines 101-116) -------------------------------------
\* Counter: counts[k] += d[k] for every key of d, new keys appended in order
CounterUpdate(acc, d) ==
    LET fresh == SelectSeq(d.keys, LAMBDA c : c \notin SeqRange(acc.keys))
        nk    == acc.keys \o fresh
    IN  [keys |-> nk,
         val  |-> [c \in SeqRange(nk) |->
                     (IF c \in SeqRange(acc.keys) THEN acc.val[c] ELSE 0)
                   + (IF c \in SeqRange(d.keys) THEN d.val[c] ELSE 0)]]

\* national_raw_totals[cand] += votes for every non-'Total' entry of one state
CounterAdd(acc, state_data) ==
    LET ks == SelectSeq(state_data.keys, LAMBDA c : c # "Total")
    IN  CounterUpdate(acc, [keys |-> ks,
                            val  |-> [c \in SeqRange(ks) |-> state_data.val[c]]])

RECURSIVE NationalRawTotals(_, _, _)
NationalRawTotals(t, i, acc) ==
    IF i > Len(t.keys) THEN acc
    ELSE NationalRawTotals(t, i + 1, CounterAdd(acc, t.val[t.keys[i]]))

\* variant: > in place of >=
MeetsThresholdStrict(votes, total) == votes * 20 > total

\* votes / total_votes_national >= 0.05, with 0.05 the double nearest 1/20
MeetsThreshold(votes, total) == votes * 20 >= total

Eligibility ==
    /\ pc = "start"
    /\ LET nrt   == NationalRawTotals(voting_turnout, 1, EmptyDict)
           total == DictSum(nrt)
       IN  /\ national_raw_totals' = nrt
           /\ IF nrt.keys # <<>> /\ total = 0
              THEN /\ pc' = "error"
                   /\ err' = "ZeroDivisionError"
                   /\ UNCHANGED <<eligible_candidates, out>>
              ELSE /\ eligible_candidates' =
                        {c \in SeqRange(nrt.keys) : MeetsThreshold(nrt.val[c], total)}
                   /\ out' = Append(out, "eligible")
                   /\ pc' = "seed"
                   /\ err' = err
    /\ UNCHANGED <<inputVars, awsVars, electors, remaining_electors,
                   hh_left, state_idx,
                   final_allocation, national_totals>>

\* ---- inter-state apportionment (lines 118-133) -------------------------------
Seed ==
    /\ pc = "seed"
    /\ LET e == [keys |-> voting_turnout.keys,
                 val  |-> [s \in SeqRange(voting_turnout.keys) |-> floor]]
           r == total_electors - DictSum(e)
       IN  /\ electors' = e
           /\ remaining_electors' = r
           /\ hh_left' = PyRange(r)
           /\ pc' = IF PyRange(r) = 0 THEN "alloc" ELSE "hh"
    /\ state_idx' = 1
    /\ UNCHANGED <<inputVars, awsVars, national_raw_totals,
                   eligible_candidates, final_allocation, national_totals,
                   out, err>>

\* votes / math.sqrt(n * (n + 1)), with sqrt(1 * 2) for n = 0
priority(votes, n) ==
    [num |-> votes, den |-> IF n = 0 THEN 1 * 2 ELSE n * (n + 1), root |-> TRUE]

\* variant: divisor n + 1
sl_priority_dhondt(votes, n) ==
    [num |-> votes, den |-> n + 1, root |-> FALSE]

\* votes / (2 * n + 1)
sl_priority(votes, n) ==
    [num |-> votes, den |-> 2 * n + 1, root |-> FALSE]

state_priorities ==
    [keys |-> electors.keys,
     val  |-> [s \in SeqRange(electors.keys) |->
                 priority(voting_turnout.val[s].val["Total"], electors.val[s])]]

HHStep ==
    /\ pc = "hh"
    /\ hh_left > 0
    /\ IF electors.keys = <<>>
       THEN /\ pc' = "error"
            /\ err' = "ValueError"
            /\ UNCHANGED <<electors, hh_left>>
       ELSE LET next_state == PyMax(state_priorities)
            IN  /\ electors' = [electors EXCEPT !.val[next_state] = @ + 1]
                /\ hh_left' = hh_left - 1
                /\ pc' = IF hh_left = 1 THEN "alloc" ELSE "hh"
                /\ err' = err
    /\ UNCHANGED <<inputVars, awsVars, national_raw_totals,
                   eligible_candidates, remaining_electors, state_idx,
                   final_allocation, national_totals, out>>

\* ---- intra-state apportionment (lines 135-151) -------------------------------
\* {cand: 0 for cand in vote_dict if cand in eligible}
InitialAllocation(vd, elig) ==
    LET ks == SelectSeq(vd.keys, LAMBDA c : c \in elig)
    IN  [keys |-> ks, val |-> [c \in SeqRange(ks) |-> 0]]

\* variant: arguments of sl_priority exchanged
cand_priorities_swapped(vd, alloc) ==
    [keys |-> alloc.keys,
     val  |-> [c \in SeqRange(alloc.keys) |-> sl_priority(alloc.val[c], vd.val[c])]]

cand_priorities(vd, alloc) ==
    [keys |-> alloc.keys,
     val  |-> [c \in SeqRange(alloc.keys) |-> sl_priority(vd.val[c], alloc.val[c])]]

\* one pass of the loop body: the allocation after the award
Award(vd, alloc) ==
    LET next_cand == PyMax(cand_priorities(vd, alloc))
    IN  [alloc EXCEPT !.val[next_cand] = @ + 1]

RECURSIVE AwardLoop(_, _, _)
AwardLoop(vd, alloc, left) ==
    IF left = 0 THEN alloc ELSE AwardLoop(vd, Award(vd, alloc), left - 1)

\* the value of a whole call
apportion_within_state(vd, n, elig) ==
    LET a == InitialAllocation(vd, elig)
    IN  IF a.keys = <<>> THEN EmptyDict ELSE AwardLoop(vd, a, PyRange(n))

\* the same call, one loop iteration at a time
AwsEnter ==
    /\ pc = "aws_enter"
    /\ LET a == InitialAllocation(vote_dict, eligible)
       IN  /\ allocation' = a
           /\ IF a.keys = <<>>
              THEN /\ aws_ret' = EmptyDict
                   /\ pc' = "aws_returned"
                   /\ UNCHANGED aws_left
              ELSE /\ aws_left' = PyRange(aws_electors)
                   /\ pc' = "aws_loop"
                   /\ UNCHANGED aws_ret
    /\ UNCHANGED <<inputVars, pipeVars, vote_dict, aws_electors, eligible, err>>

AwsStep ==
    /\ pc = "aws_loop"
    /\ aws_left > 0
    /\ allocation' = Award(vote_dict, allocation)
    /\ aws_left' = aws_left - 1
    /\ UNCHANGED <<inputVars, pipeVars, vote_dict, aws_electors, eligible,
                   aws_ret, pc, err>>

AwsReturn ==
    /\ pc = "aws_loop"
    /\ aws_left = 0
    /\ aws_ret' = allocation
    /\ pc' = "aws_returned"
    /\ UNCHANGED <<inputVars, pipeVars, vote_dict, aws_electors, eligible,
                   allocation, aws_left, err>>

\* ---- final allocation and report (lines 153-162) ------------------------------
\* one iteration of the loop over electors.items()
FinalAllocation ==
    /\ pc = "alloc"
    /\ state_idx <= Len(electors.keys)
    /\ LET state        == electors.keys[state_idx]
           num_electors == electors.val[state]
           state_votes  == voting_turnout.val[state]
           result       == apportion_within_state(state_votes, num_electors,
                                                  eligible_candidates)
           nk           == Append(final_allocation.keys, state)
       IN  final_allocation' =
               [keys |-> nk,
                val  |-> [s \in SeqRange(nk) |->
                            IF s = state THEN result ELSE final_allocation.val[s]]]
    /\ state_idx' = state_idx + 1
    /\ UNCHANGED <<inputVars, awsVars, national_raw_totals,
                   eligible_candidates, electors, remaining_electors, hh_left,
                   national_totals, out, pc, err>>

RECURSIVE UpdateAll(_, _, _)
UpdateAll(fa, i, acc) ==
    IF i > Len(fa.keys) THEN acc
    ELSE UpdateAll(fa, i + 1, CounterUpdate(acc, fa.val[fa.keys[i]]))

Report ==
    /\ pc = "alloc"
    /\ state_idx > Len(electors.keys)
    /\ national_totals' = UpdateAll(final_allocation, 1, national_totals)
    /\ out' = out \o final_allocation.keys \o <<"national">>
    /\ pc' = "done"
    /\ UNCHANGED <<inputVars, awsVars, national_raw_totals,
                   eligible_candidates, electors, remaining_electors, hh_left,
                   state_idx, final_allocation, err>>

Next ==
    \/ Eligibility
    \/ Seed
    \/ HHStep
    \/ FinalAllocation
    \/ Report

Spec == Init /\ [][Next]_vars

\* ---- apportion_within_state called on its own ---------------------------------
AwsLabels == {"Dem", "Rep", "Other"}

AwsKeySeqs ==
    {ks \in UNION {[1..n -> AwsLabels] : n \in 0..Cardinality(AwsLabels)} :
        \A i, j \in 1..Len(ks) : i # j => ks[i] # ks[j]}

AwsVoteDicts ==
    {[keys |-> ks, val |-> v] :
        ks \in AwsKeySeqs, v \in [AwsLabels -> 0..MaxAwsVote]}

RestrictVal(d) == [keys |-> d.keys, val |-> [c \in SeqRange(d.keys) |-> d.val[c]]]

ScenarioVoteDict ==
    [keys |-> <<"Dem", "Rep">>, val |-> [c \in {"Dem", "Rep"} |-> IF c = "Dem" THEN 600 ELSE 400]]

InitAws ==
    /\ voting_turnout = EmptyDict
    /\ total_electors = 0
    /\ floor = 0
    /\ national_raw_totals = EmptyDict
    /\ eligible_candidates = {}
    /\ electors = EmptyDict
    /\ remaining_electors = 0
    /\ hh_left = 0
    /\ state_idx = 0
    /\ final_allocation = EmptyDict
    /\ national_totals = EmptyDict
    /\ \E d \in AwsVoteDicts \cup {ScenarioVoteDict} : vote_dict = RestrictVal(d)
    /\ aws_electors \in 0..MaxAwsElectors
    /\ eligible \in SUBSET AwsLabels
    /\ allocation = EmptyDict
    /\ aws_left = 0
    /\ aws_ret = EmptyDict
    /\ out = <<>>
    /\ pc = "aws_enter"
    /\ err = "none"

NextAws ==
    \/ AwsEnter
    \/ AwsStep
    \/ AwsReturn

SpecAws == InitAws /\ [][NextAws]_vars

\* ==== properties ===================================================================
Labels == SeqRange(CandOrder) \ {"Total"}

RECURSIVE NatFrom(_, _)
NatFrom(c, i) ==
    IF i > Len(voting_turnout.keys) THEN 0
    ELSE voting_turnout.val[voting_turnout.keys[i]].val[c] + NatFrom(c, i + 1)

\* cross-state vote sum of one label
NatVotes(c) == NatFrom(c, 1)

GrandTotal == NatVotes("Dem") + NatVotes("Rep") + NatVotes("Other")

NumStates == Len(voting_turnout.keys)

\* the eligibility filter has produced its set
FilterReturned == pc # "start" /\ ~(pc = "error" /\ err = "ZeroDivisionError")

\* the seeding of electors has run
Seeded == pc \notin {"start", "seed"} /\ ~(pc = "error" /\ err = "ZeroDivisionError")

\* the Huntington-Hill loop has run to its end
AfterHH == pc \in {"alloc", "done"}

Pos(ks, k) == CHOOSE i \in 1..Len(ks) : ks[i] = k

\* the stepwise call returns the value of the whole call
AwsCallAgrees ==
    pc = "aws_returned" =>
        aws_ret = apportion_within_state(vote_dict, aws_electors, eligible)

\* C1: once the floor seeding and the Huntington-Hill loop have finished, the
\* elector counts of all states sum to total_electors.
C1_ElectorSumIsTotal ==
    AfterHH => DictSum(electors) = total_electors

\* C2 (as stated): the allocation apportion_within_state returns sums to the
\* elector count it was given, for every tally and every candidate set.
C2_AllocationSumsToElectors ==
    pc = "aws_returned" => DictSum(aws_ret) = aws_electors

\* C2 (amended): the returned allocation sums to the elector count whenever some
\* eligible candidate is a key of the tally; otherwise it is empty.
C2_AllocationSumsWhenEligible ==
    pc = "aws_returned" =>
        IF \E c \in SeqRange(vote_dict.keys) : c \in eligible
        THEN DictSum(aws_ret) = aws_electors
        ELSE aws_ret = EmptyDict

C2_Witness ==
    /\ pc = "aws_returned"
    /\ Len(aws_ret.keys) >= 2
    /\ aws_electors >= 3
    /\ \A c \in SeqRange(aws_ret.keys) : aws_ret.val[c] >= 1
    /\ DictSum(aws_ret) = aws_electors

\* C3: with a national grand total of zero votes (taken here over at least one
\* state, where the share is a division by zero) the filter fails with
\* DegenerateInputError and nothing is output or allocated.
C3_ZeroTotalIsDegenerateInputError ==
    (pc # "start" /\ NumStates > 0 /\ GrandTotal = 0) =>
        /\ pc = "error"
        /\ err = "DegenerateInputError"
        /\ out = <<>>
        /\ electors = EmptyDict
        /\ final_allocation = EmptyDict

\* C4: with total_electors < floor * (number of states) the apportioner ends in
\* InvalidApportionmentConfig rather than leaving every state at the floor.
C4_NegativeRemainingIsConfigError ==
    (Seeded /\ total_electors < floor * NumStates) =>
        (pc = "error" /\ err = "InvalidApportionmentConfig")

\* C5: the filter returns exactly the labels other than 'Total' whose cross-state
\* vote sum is at least 5% of the national grand total; {X: 96, Y: 4} gives {X}.
C5_EligibleIsFivePercentSet ==
    FilterReturned =>
        /\ eligible_candidates =
             IF NumStates = 0 THEN {}
             ELSE {c \in Labels : 100 * NatVotes(c) >= 5 * GrandTotal}
        /\ (voting_turnout = Turnout(<< <<96, 4, 0>> >>)
               => eligible_candidates = {"Dem"})

C5_Witness ==
    /\ FilterReturned
    /\ GrandTotal > 0
    /\ \E c, d \in Labels :
          /\ 20 * NatVotes(c) = GrandTotal
          /\ c \in eligible_candidates
          /\ NatVotes(d) > 0
          /\ d \notin eligible_candidates

\* C6: after the apportioner every state holding electors has a positive vote
\* total (a state with no votes is skipped, or the run raises); taken here on
\* configurations with total_electors >= floor * (number of states).
C6_ElectorsOnlyForStatesWithVotes ==
    (AfterHH /\ total_electors >= floor * NumStates) =>
        \A s \in SeqRange(electors.keys) :
            electors.val[s] > 0 => voting_turnout.val[s].val["Total"] > 0

\* C7: while some eligible candidate of the state has votes, an eligible
\* candidate without votes holds no electors; when none has votes every award
\* goes to the first candidate and the loop runs to its end.
C7_NoElectorsWithoutVotes ==
    pc \in {"aws_loop", "aws_returned"} /\ allocation.keys # <<>> =>
        /\ (\E d \in SeqRange(allocation.keys) : vote_dict.val[d] > 0) =>
              \A c \in SeqRange(allocation.keys) :
                  vote_dict.val[c] = 0 => allocation.val[c] = 0
        /\ (\A d \in SeqRange(allocation.keys) : vote_dict.val[d] = 0) =>
              /\ err = "none"
              /\ allocation.val[allocation.keys[1]] = PyRange(aws_electors) - aws_left
              /\ \A c \in SeqRange(allocation.keys) :
                    c # allocation.keys[1] => allocation.val[c] = 0
              /\ pc = "aws_loop" =>
                    IF aws_left > 0 THEN ENABLED AwsStep ELSE ENABLED AwsReturn

C7_Witness ==
    /\ pc = "aws_returned"
    /\ Len(aws_ret.keys) >= 2
    /\ vote_dict.val[aws_ret.keys[1]] = 0
    /\ aws_ret.val[aws_ret.keys[1]] = 0
    /\ vote_dict.val[aws_ret.keys[2]] > 0
    /\ aws_ret.val[aws_ret.keys[2]] >= 2

\* priority of a state as section 4.2 gives it: weight / sqrt(n(n+1)), the
\* divisor being sqrt(1*2) while n = 0
HHPriorityOf(s) ==
    LET n == electors.val[s]
    IN  [num  |-> voting_turnout.val[s].val["Total"],
         den  |-> IF n = 0 THEN 2 ELSE n * (n + 1),
         root |-> TRUE]

FirstMaxState(s) ==
    \A t \in SeqRange(electors.keys) :
        /\ ~FloatGT(HHPriorityOf(t), HHPriorityOf(s))
        /\ Pos(electors.keys, t) < Pos(electors.keys, s)
              => FloatGT(HHPriorityOf(s), HHPriorityOf(t))

C8_Step ==
    (pc = "hh" /\ electors.keys # <<>>) =>
        \E s \in SeqRange(electors.keys) :
            /\ FirstMaxState(s)
            /\ electors' = [electors EXCEPT !.val[s] = @ + 1]

C8_Scenario ==
    (/\ AfterHH
     /\ voting_turnout = Turnout(<< <<1000000, 0, 0>>, <<10000, 0, 0>> >>)
     /\ floor = 1
     /\ total_electors = 3) =>
        (electors.val["A"] = 2 /\ electors.val["B"] = 1)

\* C8: every iteration of the Huntington-Hill loop adds 1 to exactly one state,
\* the first state in key order among those of maximal priority, so the result
\* is a function of the input; A (1,000,000) and B (10,000) with floor 1 and
\* total 3 end with A = 2, B = 1.
C8_HuntingtonHillFirstMax ==
    [][C8_Step]_vars /\ []C8_Scenario

C8_Witness ==
    /\ AfterHH
    /\ NumStates = 2
    /\ floor = 1
    /\ voting_turnout.val["A"].val["Total"] = voting_turnout.val["B"].val["Total"]
    /\ voting_turnout.val["A"].val["Total"] > 0
    /\ electors.val["A"] = 2
    /\ electors.val["B"] = 1

SLQuotientOf(c, a) == [num |-> vote_dict.val[c], den |-> 2 * a + 1, root |-> FALSE]

FirstMaxCand(c) ==
    \A d \in SeqRange(allocation.keys) :
        /\ ~FloatGT(SLQuotientOf(d, allocation.val[d]), SLQuotientOf(c, allocation.val[c]))
        /\ Pos(allocation.keys, d) < Pos(allocation.keys, c)
              => FloatGT(SLQuotientOf(c, allocation.val[c]),
                         SLQuotientOf(d, allocation.val[d]))

C9_Step ==
    (pc = "aws_loop" /\ aws_left > 0) =>
        \E c \in SeqRange(allocation.keys) :
            /\ FirstMaxCand(c)
            /\ allocation' = [allocation EXCEPT !.val[c] = @ + 1]
            /\ aws_left' = aws_left - 1

\* highest averages: no quotient already used is below a quotient still unused
HighestAverages(a) ==
    \A c, d \in SeqRange(a.keys) :
        a.val[c] > 0 =>
            vote_dict.val[c] * (2 * a.val[d] + 1)
                >= vote_dict.val[d] * (2 * a.val[c] - 1)

C9_Result ==
    pc = "aws_returned" =>
        IF \E c \in SeqRange(vote_dict.keys) : c \in eligible
        THEN /\ aws_ret.keys = SelectSeq(vote_dict.keys, LAMBDA c : c \in eligible)
             /\ DictSum(aws_ret) = aws_electors
             /\ HighestAverages(aws_ret)
             /\ (vote_dict = ScenarioVoteDict /\ aws_electors = 5
                    /\ {"Dem", "Rep"} \subseteq eligible)
                  => (aws_ret.val["Dem"] = 3 /\ aws_ret.val["Rep"] = 2)
        ELSE aws_ret = EmptyDict

\* C9: with an eligible candidate among the keys, apportion_within_state makes
\* exactly k awards, each to the first candidate of maximal votes / (2a + 1),
\* and returns a Sainte-Lague highest-averages allocation; with none it
\* returns the empty allocation; k = 5 and {X: 600, Y: 400} give X = 3, Y = 2.
C9_SainteLague ==
    [][C9_Step]_vars /\ []C9_Result

C9_Witness ==
    /\ pc = "aws_returned"
    /\ vote_dict = ScenarioVoteDict
    /\ aws_electors = 5
    /\ aws_ret.val = [c \in {"Dem", "Rep"} |-> IF c = "Dem" THEN 3 ELSE 2]

\* C10: at every point of the loop and in the result, a candidate with more
\* votes than another never holds fewer electors than it.
C10_VoteOrderPreserved ==
    pc \in {"aws_loop", "aws_returned"} =>
        \A c1, c2 \in SeqRange(allocation.keys) :
            vote_dict.val[c1] > vote_dict.val[c2]
                => allocation.val[c1] >= allocation.val[c2]

C10_Witness ==
    /\ pc = "aws_loop"
    /\ aws_left > 0
    /\ Len(allocation.keys) >= 2
    /\ vote_dict.val[allocation.keys[2]] > vote_dict.val[allocation.keys[1]]
    /\ allocation.val[allocation.keys[1]] >= 1
    /\ allocation.val[allocation.keys[2]] > allocation.val[allocation.keys[1]]
====
